---- MODULE Spec2Model ----
(***************************************************************************)
(* Model of generate_assets.py: the vertical gradient fill, the outlined   *)
(* text label, the font fallback chain and the top-level asset generation. *)
(***************************************************************************)
EXTENDS Integers, Sequences, FiniteSets, TLC

VARIABLES
    pc,             \* position of the running function
    raised,         \* exception in flight, "none" when there is none
    width,          \* canvas width (create_gradient_background argument)
    height,         \* canvas height (create_gradient_background argument)
    color_top,      \* create_gradient_background: hex colour of the first row
    color_bottom,   \* create_gradient_background: hex colour below the last row
    background,     \* hex colour Image.new filled the canvas with
    canvas,         \* pixel grid: [<<x, y>> -> <<r, g, b>>]
    y,              \* loop variable of create_gradient_background
    outline_width,  \* draw_text_with_outline argument
    position,       \* draw_text_with_outline argument: the anchor <<x, y>>
    fill_color,     \* draw_text_with_outline argument
    outline_color,  \* draw_text_with_outline argument
    adj,            \* loop variables <<adj_x, adj_y>> of draw_text_with_outline
    draws,          \* the draw.text calls issued so far: [at, fill]
    bold,           \* get_font argument
    existing,       \* font paths for which os.path.exists is true
    loadable,       \* font paths ImageFont.truetype can load
    font_index,     \* loop position of get_font in font_options
    font,           \* font handle returned by get_font
    ip,             \* generate_all_assets: index of the next step
    attempted,      \* generate_all_assets: label steps entered so far
    stamped,        \* generate_all_assets: label steps that drew their text
    images,         \* generate_all_assets: images held in local variables
    files,          \* files saved under assets/, in the order of saving
    success,        \* return value of generate_all_assets
    exit_code       \* argument of sys.exit

gradientVars == <<width, height, color_top, color_bottom, background, y>>
labelVars == <<outline_width, position, fill_color, outline_color, adj, draws>>
fontVars == <<bold, existing, loadable, font_index, font>>
assetVars == <<ip, attempted, stamped, images, files, success, exit_code>>

vars == <<pc, raised, canvas, gradientVars, labelVars, fontVars, assetVars>>

----------------------------------------------------------------------------
(* Bounds *)

MaxWidth == 2
MaxHeight == 10
MaxOutline == 2
MaxTextWidth == 3
MaxSize == 6

----------------------------------------------------------------------------
(* Colour table, lines 16-20.  A hex colour is the sequence of its         *)
(* characters.                                                             *)

PRIMARY_BLUE == <<"#", "2", "E", "7", "C", "E", "E">>
DARK_BLUE == <<"#", "1", "E", "5", "B", "B", "8">>
LIGHT_BLUE == <<"#", "5", "B", "A", "3", "F", "F">>
WHITE == <<"#", "F", "F", "F", "F", "F", "F">>
GOLD == <<"#", "F", "F", "D", "7", "0", "0">>

\* two further colours for the gradient inputs
BLACK == <<"#", "0", "0", "0", "0", "0", "0">>
TEAL == <<"#", "5", "A", "A", "A", "B", "4">>

HexDigit(ch) ==
    CASE ch = "0" -> 0 [] ch = "1" -> 1 [] ch = "2" -> 2 [] ch = "3" -> 3
      [] ch = "4" -> 4 [] ch = "5" -> 5 [] ch = "6" -> 6 [] ch = "7" -> 7
      [] ch = "8" -> 8 [] ch = "9" -> 9 [] ch = "A" -> 10 [] ch = "B" -> 11
      [] ch = "C" -> 12 [] ch = "D" -> 13 [] ch = "E" -> 14 [] ch = "F" -> 15

RECURSIVE lstrip(_, _)
lstrip(s, ch) ==
    IF s # <<>> /\ Head(s) = ch THEN lstrip(Tail(s), ch) ELSE s

hex_to_rgb(hex_color) ==
    LET h == lstrip(hex_color, "#")
    IN  [c \in 1..3 |-> 16 * HexDigit(h[2 * c - 1]) + HexDigit(h[2 * c])]

----------------------------------------------------------------------------
(* Python float arithmetic (IEEE 754 binary64, round to nearest, ties to   *)
(* even).  A magnitude is a sequence of bits, most significant first,      *)
(* without leading zeros; a float is (-1)^neg * m * 2^e.                   *)

Precision == 53
LimbBits == 15
LimbBase == 2 ^ LimbBits

Max(i, j) == IF i >= j THEN i ELSE j
Min(i, j) == IF i <= j THEN i ELSE j

Front(b) == SubSeq(b, 1, Len(b) - 1)
Last(b) == b[Len(b)]
Zeros(n) == [i \in 1..n |-> 0]
PadLeft(b, n) == Zeros(n - Len(b)) \o b

\* drop the leading zeros
Strip(b) ==
    IF \A i \in 1..Len(b) : b[i] = 0 THEN <<>>
    ELSE LET k == CHOOSE i \in 1..Len(b) :
                      b[i] = 1 /\ \A j \in 1..(i - 1) : b[j] = 0
         IN  SubSeq(b, k, Len(b))

RECURSIVE NatToBits(_)
NatToBits(n) == IF n = 0 THEN <<>> ELSE Append(NatToBits(n \div 2), n % 2)

RECURSIVE BitsToNat(_)
BitsToNat(b) == IF b = <<>> THEN 0 ELSE 2 * BitsToNat(Front(b)) + Last(b)

\* magnitudes are added and subtracted one limb of LimbBits bits at a time
LimbCount(a, b) == (Max(Len(a), Len(b)) + LimbBits - 1) \div LimbBits
LimbAt(a, i) == BitsToNat(SubSeq(a, (i - 1) * LimbBits + 1, i * LimbBits))
LimbOf(n) == PadLeft(NatToBits(n), LimbBits)

RECURSIVE AddLimbs(_, _, _, _)
AddLimbs(a, b, i, s) ==
    IF i = 1 THEN NatToBits(s)
    ELSE AddLimbs(a, b, i - 1,
                  LimbAt(a, i - 1) + LimbAt(b, i - 1) + s \div LimbBase)
         \o LimbOf(s % LimbBase)

AddBits(a, b) ==
    LET k == LimbCount(a, b)
        pa == PadLeft(a, k * LimbBits)
        pb == PadLeft(b, k * LimbBits)
    IN  IF k = 0 THEN <<>>
        ELSE Strip(AddLimbs(pa, pb, k, LimbAt(pa, k) + LimbAt(pb, k)))

RECURSIVE SubLimbs(_, _, _, _)
SubLimbs(a, b, i, d) ==
    IF i = 1 THEN NatToBits(d)
    ELSE SubLimbs(a, b, i - 1,
                  LimbAt(a, i - 1) - LimbAt(b, i - 1) - (IF d < 0 THEN 1 ELSE 0))
         \o LimbOf(IF d < 0 THEN d + LimbBase ELSE d)

\* a - b for magnitudes with a >= b
SubBits(a, b) ==
    LET k == LimbCount(a, b)
        pa == PadLeft(a, k * LimbBits)
        pb == PadLeft(b, k * LimbBits)
    IN  IF k = 0 THEN <<>>
        ELSE Strip(SubLimbs(pa, pb, k, LimbAt(pa, k) - LimbAt(pb, k)))

LessBits(a, b) ==
    IF Len(a) # Len(b) THEN Len(a) < Len(b)
    ELSE \E i \in 1..Len(a) :
             a[i] < b[i] /\ \A j \in 1..(i - 1) : a[j] = b[j]

Double(b) == IF b = <<>> THEN <<>> ELSE Append(b, 0)

AddIf(bit, acc, a) == IF bit = 1 THEN AddBits(acc, a) ELSE acc

\* a * b, one shift-and-add step per bit of b
RECURSIVE MulBy(_, _)
MulBy(a, b) ==
    IF b = <<>> THEN <<>> ELSE AddIf(Last(b), Double(MulBy(a, Front(b))), a)

MulBits(a, b) == IF Len(a) < Len(b) THEN MulBy(b, a) ELSE MulBy(a, b)

\* round the magnitude b * 2^e to Precision significant bits
RoundNearestEven(neg, b, e) ==
    IF Len(b) <= Precision THEN [neg |-> neg, m |-> b, e |-> e]
    ELSE LET kept == SubSeq(b, 1, Precision)
             guard == b[Precision + 1]
             sticky == \E i \in (Precision + 2)..Len(b) : b[i] = 1
             up == guard = 1 /\ (sticky \/ Last(kept) = 1)
         IN  [neg |-> neg,
              m |-> IF up THEN AddBits(kept, <<1>>) ELSE kept,
              e |-> e + (Len(b) - Precision)]

FloatOfInt(n) ==
    [neg |-> n < 0, m |-> NatToBits(IF n < 0 THEN -n ELSE n), e |-> 0]

\* the next n limbs of the binary expansion of r / d (0 <= r < d), followed
\* by a sticky bit that is 1 when the expansion goes on
RECURSIVE DivLimbs(_, _, _)
DivLimbs(r, d, n) ==
    IF n = 0 THEN <<IF r = 0 THEN 0 ELSE 1>>
    ELSE LimbOf((r * LimbBase) \div d) \o DivLimbs((r * LimbBase) % d, d, n - 1)

DivLimbCount == 6

\* int / int true division of n >= 0 by d > 0
FloatDiv(n, d) ==
    LET frac == DivLimbs(n % d, d, DivLimbCount)
    IN  RoundNearestEven(FALSE, Strip(NatToBits(n \div d) \o frac), -Len(frac))

FloatMul(a, b) ==
    RoundNearestEven(a.neg # b.neg /\ a.m # <<>> /\ b.m # <<>>,
                     MulBits(a.m, b.m), a.e + b.e)

FloatAdd(a, b) ==
    LET e == Min(a.e, b.e)
        am == IF a.m = <<>> THEN <<>> ELSE a.m \o Zeros(a.e - e)
        bm == IF b.m = <<>> THEN <<>> ELSE b.m \o Zeros(b.e - e)
    IN  IF a.neg = b.neg THEN RoundNearestEven(a.neg, AddBits(am, bm), e)
        ELSE IF LessBits(am, bm) THEN RoundNearestEven(b.neg, SubBits(bm, am), e)
        ELSE IF am = bm THEN [neg |-> FALSE, m |-> <<>>, e |-> 0]
        ELSE RoundNearestEven(a.neg, SubBits(am, bm), e)

\* int(f): truncation toward zero
IntOfFloat(f) ==
    LET mag == IF f.e >= 0 THEN BitsToNat(f.m \o Zeros(f.e))
               ELSE IF Len(f.m) <= -f.e THEN 0
               ELSE BitsToNat(SubSeq(f.m, 1, Len(f.m) + f.e))
    IN  IF f.neg THEN -mag ELSE mag

----------------------------------------------------------------------------
(* create_gradient_background, lines 45-55 *)

\* the rows counted from 1 instead of 0
RatioFromOne(yy, h) == FloatDiv(yy + 1, h)

\* ratio = y / height
Ratio(yy, h) == FloatDiv(yy, h)

\* the difference taken the wrong way round
ChannelReversed(c1, c2, ratio) ==
    IntOfFloat(FloatAdd(FloatOfInt(c1), FloatMul(FloatOfInt(c1 - c2), ratio)))

\* int(c1 + (c2 - c1) * ratio)
Channel(c1, c2, ratio) ==
    IntOfFloat(FloatAdd(FloatOfInt(c1), FloatMul(FloatOfInt(c2 - c1), ratio)))

RowColor(top, bottom, yy, h) ==
    LET ratio == Ratio(yy, h)
    IN  [c \in 1..3 |-> Channel(top[c], bottom[c], ratio)]

\* Image.new('RGB', (w, h), color)
NewImage(w, h, color) == [p \in (0..(w - 1)) \X (0..(h - 1)) |-> color]

\* draw.line([(x0, yy), (x1, yy)], fill): both end points are drawn, pixels
\* outside the image are clipped
DrawLine(cv, x0, x1, yy, fill) ==
    [p \in DOMAIN cv |->
        IF p[2] = yy /\ x0 <= p[1] /\ p[1] <= x1 THEN fill ELSE cv[p]]

GradientColors == {LIGHT_BLUE, DARK_BLUE, WHITE, BLACK, TEAL}

idleLabel ==
    /\ outline_width = 0 /\ position = <<0, 0>> /\ fill_color = WHITE
    /\ outline_color = WHITE /\ adj = <<0, 0>> /\ draws = <<>>

idleFont ==
    /\ bold = FALSE /\ existing = {} /\ loadable = {} /\ font_index = 1
    /\ font = "none"

idleAssets ==
    /\ ip = 1 /\ attempted = <<>> /\ stamped = {} /\ images = {}
    /\ files = <<>> /\ success = "none" /\ exit_code = -1

\* lines 79-83: the canvas is created, then create_gradient_background is
\* entered with the same dimensions
GradientInit ==
    /\ pc = "gradient"
    /\ raised = "none"
    /\ width \in 0..MaxWidth
    /\ height \in 0..MaxHeight
    /\ color_top \in GradientColors
    /\ color_bottom \in GradientColors
    /\ background = PRIMARY_BLUE
    /\ canvas = NewImage(width, height, hex_to_rgb(background))
    /\ y = 0
    /\ idleLabel /\ idleFont /\ idleAssets

\* one iteration of the loop of lines 50-55
GradientRow ==
    /\ pc = "gradient"
    /\ y < height
    /\ canvas' = DrawLine(canvas, 0, width, y,
                          RowColor(hex_to_rgb(color_top),
                                   hex_to_rgb(color_bottom), y, height))
    /\ y' = y + 1
    /\ UNCHANGED <<pc, raised, width, height, color_top, color_bottom,
                   background, labelVars, fontVars, assetVars>>

\* range(height) is exhausted: the function returns
GradientReturn ==
    /\ pc = "gradient"
    /\ y >= height
    /\ pc' = "gradient_done"
    /\ UNCHANGED <<raised, canvas, gradientVars, labelVars, fontVars,
                   assetVars>>

GradientNext == GradientRow \/ GradientReturn

SpecGradient == GradientInit /\ [][GradientNext]_vars

----------------------------------------------------------------------------
(* draw_text_with_outline, lines 57-66, inside the try block of a label,   *)
(* lines 105-113                                                           *)

\* draw.text(at, text, font, fill): the glyphs are abstracted to the one
\* pixel at the anchor, clipped to the image
DrawText(cv, at, fill) ==
    [p \in DOMAIN cv |-> IF p = at THEN fill ELSE cv[p]]

\* "if adj_x != 0 and adj_y != 0"
OffCentreBoth(a) == a[1] # 0 /\ a[2] # 0

\* line 63: if adj_x != 0 or adj_y != 0
OffCentre(a) == a[1] # 0 \/ a[2] # 0

\* the two nested range(-outline_width, outline_width + 1) loops
NextAdj(a, w) == IF a[2] < w THEN <<a[1], a[2] + 1>> ELSE <<a[1] + 1, -w>>

\* line 109: int(size * 0.15)
LabelY(size) == IntOfFloat(FloatMul(FloatOfInt(size), FloatDiv(15, 100)))

LabelColors == {<<WHITE, DARK_BLUE>>, <<GOLD, DARK_BLUE>>, <<PRIMARY_BLUE, WHITE>>}

LabelInit ==
    /\ pc = "measure"
    /\ raised = "none"
    /\ width \in 4..MaxSize
    /\ height = width
    /\ color_top = LIGHT_BLUE /\ color_bottom = DARK_BLUE
    /\ background = PRIMARY_BLUE
    /\ canvas = NewImage(width, height, hex_to_rgb(background))
    /\ y = 0
    /\ outline_width \in 0..MaxOutline
    /\ position = <<0, 0>>
    /\ \E c \in LabelColors : fill_color = c[1] /\ outline_color = c[2]
    /\ adj = <<0, 0>>
    /\ draws = <<>>
    /\ idleFont /\ idleAssets

labelArgs == <<raised, gradientVars, outline_width, fill_color, outline_color>>

\* lines 106-111: the text is measured, centred, and draw_text_with_outline
\* is entered
Measure ==
    /\ pc = "measure"
    /\ \E text_width \in 0..MaxTextWidth :
           position' = <<(width - text_width) \div 2, LabelY(width)>>
    /\ adj' = <<-outline_width, -outline_width>>
    /\ pc' = "outline"
    /\ UNCHANGED <<labelArgs, canvas, draws, fontVars, assetVars>>

\* lines 112-113: except: pass
SkipLabel ==
    /\ pc' = "label_skipped"
    /\ UNCHANGED <<labelArgs, canvas, position, adj, draws, fontVars, assetVars>>

\* draw.textbbox raises
MeasureRaises == pc = "measure" /\ SkipLabel

\* one iteration of the inner loop of lines 61-64
OutlineStep ==
    /\ pc = "outline"
    /\ adj[1] <= outline_width
    /\ IF OffCentre(adj)
       THEN LET at == <<position[1] + adj[1], position[2] + adj[2]>>
                fill == hex_to_rgb(outline_color)
            IN  /\ canvas' = DrawText(canvas, at, fill)
                /\ draws' = Append(draws, [at |-> at, fill |-> fill])
       ELSE UNCHANGED <<canvas, draws>>
    /\ adj' = NextAdj(adj, outline_width)
    /\ UNCHANGED <<pc, labelArgs, position, fontVars, assetVars>>

\* draw.text of line 64 raises
OutlineRaises ==
    /\ pc = "outline"
    /\ adj[1] <= outline_width
    /\ OffCentre(adj)
    /\ SkipLabel

\* line 66: the loops are over, the text is drawn in the fill colour
FillStep ==
    /\ pc = "outline"
    /\ adj[1] > outline_width
    /\ canvas' = DrawText(canvas, position, hex_to_rgb(fill_color))
    /\ draws' = Append(draws, [at |-> position, fill |-> hex_to_rgb(fill_color)])
    /\ pc' = "label_done"
    /\ UNCHANGED <<labelArgs, position, adj, fontVars, assetVars>>

\* draw.text of line 66 raises
FillRaises ==
    /\ pc = "outline"
    /\ adj[1] > outline_width
    /\ SkipLabel

LabelNext ==
    \/ Measure \/ MeasureRaises \/ OutlineStep \/ OutlineRaises
    \/ FillStep \/ FillRaises

SpecLabel == LabelInit /\ [][LabelNext]_vars

----------------------------------------------------------------------------
(* get_font, lines 22-38 *)

None == "None"

font_options(b) ==
    << IF b THEN "/system/fonts/Roboto-Bold.ttf"
            ELSE "/system/fonts/Roboto-Regular.ttf",
       IF b THEN "/system/fonts/DroidSans-Bold.ttf"
            ELSE "/system/fonts/DroidSans.ttf",
       IF b THEN "/data/data/com.termux/files/usr/share/fonts/TTF/DejaVuSans-Bold.ttf"
            ELSE "/data/data/com.termux/files/usr/share/fonts/TTF/DejaVuSans.ttf",
       None >>

FontPaths == {font_options(b)[i] : b \in BOOLEAN, i \in 1..3}

\* line 32: if font_path and os.path.exists(font_path)
PathExists(font_path, ex) == font_path # None /\ font_path \in ex

\* "break": the remaining candidates are given up
AfterLoadFailureBreak(i, n) == n + 1

\* lines 35-36: except: continue
AfterLoadFailure(i, n) == i + 1

\* line 38: ImageFont.load_default()
DefaultFont == "default"

FontInit ==
    /\ pc = "get_font"
    /\ raised = "none"
    /\ width = 0 /\ height = 0
    /\ color_top = LIGHT_BLUE /\ color_bottom = DARK_BLUE
    /\ background = PRIMARY_BLUE
    /\ canvas = NewImage(width, height, hex_to_rgb(background))
    /\ y = 0
    /\ idleLabel
    /\ bold \in BOOLEAN
    /\ existing \in SUBSET FontPaths
    /\ loadable \in SUBSET {font_options(bold)[i] : i \in 1..3}
    /\ font_index = 1
    /\ font = "none"
    /\ idleAssets

fontEnv == <<raised, canvas, gradientVars, labelVars, bold, existing, loadable,
             assetVars>>

\* the candidate is None or does not exist: next iteration
FontSkip ==
    /\ pc = "get_font"
    /\ font_index <= Len(font_options(bold))
    /\ ~PathExists(font_options(bold)[font_index], existing)
    /\ font_index' = font_index + 1
    /\ UNCHANGED <<pc, font, fontEnv>>

\* line 34: the candidate exists and loads
FontLoad ==
    /\ pc = "get_font"
    /\ font_index <= Len(font_options(bold))
    /\ PathExists(font_options(bold)[font_index], existing)
    /\ font_options(bold)[font_index] \in loadable
    /\ font' = font_options(bold)[font_index]
    /\ pc' = "font_returned"
    /\ UNCHANGED <<font_index, fontEnv>>

\* lines 35-36: the candidate exists, ImageFont.truetype raises
FontLoadFails ==
    /\ pc = "get_font"
    /\ font_index <= Len(font_options(bold))
    /\ PathExists(font_options(bold)[font_index], existing)
    /\ font_options(bold)[font_index] \notin loadable
    /\ font_index' = AfterLoadFailure(font_index, Len(font_options(bold)))
    /\ UNCHANGED <<pc, font, fontEnv>>

\* line 38: no candidate was returned
FontDefault ==
    /\ pc = "get_font"
    /\ font_index > Len(font_options(bold))
    /\ font' = DefaultFont
    /\ pc' = "font_returned"
    /\ UNCHANGED <<font_index, fontEnv>>

FontNext == FontSkip \/ FontLoad \/ FontLoadFails \/ FontDefault

SpecFont == FontInit /\ [][FontNext]_vars

\* get_font as one call: the loop above run from candidate i on
RECURSIVE get_font_from(_, _, _, _)
get_font_from(i, b, ex, ld) ==
    IF i > Len(font_options(b)) THEN DefaultFont
    ELSE IF ~PathExists(font_options(b)[i], ex)
         THEN get_font_from(i + 1, b, ex, ld)
    ELSE IF font_options(b)[i] \in ld THEN font_options(b)[i]
    ELSE get_font_from(AfterLoadFailure(i, Len(font_options(b))), b, ex, ld)

get_font(b, ex, ld) == get_font_from(1, b, ex, ld)

----------------------------------------------------------------------------
(* generate_all_assets and the three image builders, lines 68-307 *)

NewStep(img) == [op |-> "new", image |-> img, arg |-> "", bold |-> FALSE]
LabelStep(img, text, b) == [op |-> "label", image |-> img, arg |-> text, bold |-> b]
ReturnStep(img) == [op |-> "return", image |-> img, arg |-> "", bold |-> FALSE]
SaveStep(img, file) == [op |-> "save", image |-> img, arg |-> file, bold |-> FALSE]
ResizeStep(img, src) == [op |-> "resize", image |-> img, arg |-> src, bold |-> FALSE]
DoneStep == [op |-> "done", image |-> "", arg |-> "", bold |-> FALSE]

\* the favicon derived and saved before the splash screen
AssetStepsFaviconEarly ==
    << NewStep("icon"), LabelStep("icon", "Rx", TRUE),
       LabelStep("icon", "UWtopia", TRUE), LabelStep("icon", "@DrEndris", FALSE),
       ReturnStep("icon"), SaveStep("icon", "assets/icon.png"),
       NewStep("adaptive"), LabelStep("adaptive", "Rx", TRUE),
       LabelStep("adaptive", "UWtopia", TRUE),
       ReturnStep("adaptive"), SaveStep("adaptive", "assets/adaptive-icon.png"),
       ResizeStep("favicon", "icon"), SaveStep("favicon", "assets/favicon.png"),
       NewStep("splash"), LabelStep("splash", "Rx", TRUE),
       LabelStep("splash", "UWtopia Rx", TRUE),
       LabelStep("splash", "Medical Question Bank", FALSE),
       LabelStep("splash", "by @DrEndris", FALSE),
       ReturnStep("splash"), SaveStep("splash", "assets/splash.png"),
       DoneStep >>

\* the body of the try block of generate_all_assets, the image builders
\* inlined at their calls
AssetSteps ==
    << NewStep("icon"), LabelStep("icon", "Rx", TRUE),
       LabelStep("icon", "UWtopia", TRUE), LabelStep("icon", "@DrEndris", FALSE),
       ReturnStep("icon"), SaveStep("icon", "assets/icon.png"),
       NewStep("adaptive"), LabelStep("adaptive", "Rx", TRUE),
       LabelStep("adaptive", "UWtopia", TRUE),
       ReturnStep("adaptive"), SaveStep("adaptive", "assets/adaptive-icon.png"),
       NewStep("splash"), LabelStep("splash", "Rx", TRUE),
       LabelStep("splash", "UWtopia Rx", TRUE),
       LabelStep("splash", "Medical Question Bank", FALSE),
       LabelStep("splash", "by @DrEndris", FALSE),
       ReturnStep("splash"), SaveStep("splash", "assets/splash.png"),
       ResizeStep("favicon", "icon"), SaveStep("favicon", "assets/favicon.png"),
       DoneStep >>

Step == AssetSteps[ip]

\* the exception leaves the builder
LabelExceptPropagates(i) == [pc |-> "except", ip |-> i, raised |-> "Exception"]

\* the except clause of a label: the exception is dropped and the builder
\* goes on with the next statement
LabelExcept(i) == [pc |-> "run", ip |-> i + 1, raised |-> "none"]

\* sys.exit(0) whatever generate_all_assets returned
ExitCodeAlwaysZero(ok) == IF ok THEN 0 ELSE 0

\* line 307: sys.exit(0 if success else 1)
ExitCode(ok) == IF ok THEN 0 ELSE 1

FontEnvironments == {{}, FontPaths}

AssetInit ==
    /\ pc = "run"
    /\ raised = "none"
    /\ width = 0 /\ height = 0
    /\ color_top = LIGHT_BLUE /\ color_bottom = DARK_BLUE
    /\ background = PRIMARY_BLUE
    /\ canvas = NewImage(width, height, hex_to_rgb(background))
    /\ y = 0
    /\ idleLabel
    /\ bold = FALSE
    /\ existing \in FontEnvironments
    /\ loadable \in FontEnvironments
    /\ font_index = 1
    /\ font = "none"
    /\ idleAssets

assetEnv == <<canvas, gradientVars, labelVars, bold, existing, loadable,
              font_index>>

\* an uncaught exception reaches the except clause of generate_all_assets
Raise ==
    /\ raised' = "Exception"
    /\ pc' = "except"
    /\ UNCHANGED <<assetEnv, font, assetVars>>

\* Image.new and create_gradient_background of an image builder
NewCanvas ==
    /\ pc = "run" /\ Step.op = "new"
    /\ ip' = ip + 1
    /\ UNCHANGED <<pc, raised, assetEnv, font, attempted, stamped, images,
                   files, success, exit_code>>

NewCanvasRaises == pc = "run" /\ Step.op = "new" /\ Raise

\* a label: get_font, then the try block, which draws the text
LabelDrawn ==
    /\ pc = "run" /\ Step.op = "label"
    /\ font' = get_font(Step.bold, existing, loadable)
    /\ attempted' = Append(attempted, ip)
    /\ stamped' = stamped \cup {ip}
    /\ ip' = ip + 1
    /\ UNCHANGED <<pc, raised, assetEnv, images, files, success, exit_code>>

\* a label: get_font, then the try block raises in the measurement or in one
\* of the draws, and the except clause of the label runs
LabelRaises ==
    /\ pc = "run" /\ Step.op = "label"
    /\ font' = get_font(Step.bold, existing, loadable)
    /\ attempted' = Append(attempted, ip)
    /\ pc' = LabelExcept(ip).pc
    /\ ip' = LabelExcept(ip).ip
    /\ raised' = LabelExcept(ip).raised
    /\ UNCHANGED <<assetEnv, stamped, images, files, success, exit_code>>

\* the builder returns its image to generate_all_assets
ReturnImage ==
    /\ pc = "run" /\ Step.op = "return"
    /\ images' = images \cup {Step.image}
    /\ ip' = ip + 1
    /\ UNCHANGED <<pc, raised, assetEnv, font, attempted, stamped, files,
                   success, exit_code>>

\* image.save(path, 'PNG', optimize=True)
Save ==
    /\ pc = "run" /\ Step.op = "save"
    /\ Step.image \in images
    /\ files' = Append(files, Step.arg)
    /\ ip' = ip + 1
    /\ UNCHANGED <<pc, raised, assetEnv, font, attempted, stamped, images,
                   success, exit_code>>

SaveRaises == pc = "run" /\ Step.op = "save" /\ Raise

\* line 282: favicon = icon.resize((48, 48), ...)
Resize ==
    /\ pc = "run" /\ Step.op = "resize"
    /\ Step.arg \in images
    /\ images' = images \cup {Step.image}
    /\ ip' = ip + 1
    /\ UNCHANGED <<pc, raised, assetEnv, font, attempted, stamped, files,
                   success, exit_code>>

ResizeRaises == pc = "run" /\ Step.op = "resize" /\ Raise

\* line 297: return True
ReturnTrue ==
    /\ pc = "run" /\ Step.op = "done"
    /\ success' = TRUE
    /\ pc' = "returned"
    /\ UNCHANGED <<raised, assetEnv, font, ip, attempted, stamped, images,
                   files, exit_code>>

\* lines 299-303: the error is printed, return False
Except ==
    /\ pc = "except"
    /\ raised' = "none"
    /\ success' = FALSE
    /\ pc' = "returned"
    /\ UNCHANGED <<assetEnv, font, ip, attempted, stamped, images, files,
                   exit_code>>

\* lines 306-307
Exit ==
    /\ pc = "returned"
    /\ exit_code' = ExitCode(success)
    /\ pc' = "exited"
    /\ UNCHANGED <<raised, assetEnv, font, ip, attempted, stamped, images,
                   files, success>>

Next ==
    \/ NewCanvas \/ NewCanvasRaises \/ LabelDrawn \/ LabelRaises
    \/ ReturnImage \/ Save \/ SaveRaises \/ Resize \/ ResizeRaises
    \/ ReturnTrue \/ Except \/ Exit

Init == AssetInit

Spec == Init /\ [][Next]_vars

----------------------------------------------------------------------------
(* Properties of the gradient *)

Abs(n) == IF n < 0 THEN -n ELSE n

\* integer truncation of n / d, d > 0
Truncated(n, d) == IF n >= 0 THEN n \div d ELSE -((-n) \div d)

Top == hex_to_rgb(color_top)
Bottom == hex_to_rgb(color_bottom)
GradientDone == pc = "gradient_done" /\ width > 0 /\ height > 0

\* C1: after create_gradient_background every pixel of row y holds, in each
\* channel c, the integer truncation of top_c + (bottom_c - top_c) * y / height,
\* so that a row is uniform and no pixel is left as Image.new made it.
GradientRowsInterpolated ==
    GradientDone =>
        \A p \in DOMAIN canvas : \A c \in 1..3 :
            canvas[p][c] =
                Truncated(Top[c] * height + (Bottom[c] - Top[c]) * p[2], height)

\* C2 as stated: row 0 is the top colour and every channel of the last row is
\* within 1 of the bottom colour.
LastRowWithinOneOfBottom ==
    GradientDone =>
        \A x \in 0..(width - 1) :
            /\ canvas[<<x, 0>>] = Top
            /\ \A c \in 1..3 :
                   Abs(canvas[<<x, height - 1>>][c] - Bottom[c]) <= 1

\* C2 as amended: row 0 is the top colour and every channel of the last row is
\* within floor(|bottom_c - top_c| / height) + 1 of the bottom colour, hence
\* within 1 of it when height exceeds the channel's difference.
LastRowWithinStepOfBottom ==
    GradientDone =>
        \A x \in 0..(width - 1) :
            /\ canvas[<<x, 0>>] = Top
            /\ \A c \in 1..3 :
                   /\ Abs(canvas[<<x, height - 1>>][c] - Bottom[c])
                          <= Abs(Bottom[c] - Top[c]) \div height + 1
                   /\ height > Abs(Bottom[c] - Top[c]) =>
                          Abs(canvas[<<x, height - 1>>][c] - Bottom[c]) <= 1

\* a finished gradient of several rows whose last row is more than 1 away
\* from the bottom colour
LastRowFarFromBottom ==
    /\ GradientDone /\ height > 1
    /\ canvas[<<0, 0>>] = Top
    /\ Abs(canvas[<<0, height - 1>>][1] - Bottom[1]) > 1

\* C3: a channel whose top and bottom values differ is monotonic in y, in the
\* direction from top to bottom, and stays between the two values.
GradientMonotonic ==
    GradientDone =>
        \A c \in 1..3 : \A y1, y2 \in 0..(height - 1) :
            LET v1 == canvas[<<0, y1>>][c]
                v2 == canvas[<<0, y2>>][c]
            IN  /\ (Top[c] < Bottom[c] /\ y1 <= y2) =>
                       (Top[c] <= v1 /\ v1 <= v2 /\ v2 <= Bottom[c])
                /\ (Top[c] > Bottom[c] /\ y1 <= y2) =>
                       (Top[c] >= v1 /\ v1 >= v2 /\ v2 >= Bottom[c])

\* a finished gradient with a rising and a falling channel
GradientRisesAndFalls ==
    /\ GradientDone /\ height >= 3
    /\ Top[1] > Bottom[1] /\ Top[2] < Bottom[2]
    /\ canvas[<<0, height - 1>>][1] < canvas[<<0, 0>>][1]
    /\ canvas[<<0, height - 1>>][2] > canvas[<<0, 0>>][2]

\* C4: a gradient canvas with width <= 0 or height <= 0 is refused with an
\* InvalidDimension error.
InvalidDimensionRejected ==
    (pc = "gradient_done" /\ (width <= 0 \/ height <= 0)) =>
        raised = "InvalidDimension"

----------------------------------------------------------------------------
(* Properties of the outlined label *)

Offsets(w) == ((-w)..w) \X ((-w)..w) \ {<<0, 0>>}
OutlineDraw(d) == [at |-> <<position[1] + d[1], position[2] + d[2]>>,
                   fill |-> hex_to_rgb(outline_color)]
FillDraw == [at |-> position, fill |-> hex_to_rgb(fill_color)]
Side == 2 * outline_width + 1

\* C5: draw_text_with_outline issues (2w+1)^2 - 1 outline draws, one at each
\* offset other than (0, 0) and none twice, and after all of them one fill
\* draw at the anchor; with w = 0 the fill draw is the only draw.
OutlineThenFill ==
    /\ \A i \in 1..Len(draws) :
           draws[i].fill = hex_to_rgb(fill_color) => i = Side * Side
    /\ pc = "label_done" =>
           /\ Len(draws) = Side * Side
           /\ draws[Len(draws)] = FillDraw
           /\ {draws[i] : i \in 1..(Len(draws) - 1)}
                  = {OutlineDraw(d) : d \in Offsets(outline_width)}
           /\ Cardinality({draws[i] : i \in 1..(Len(draws) - 1)})
                  = Side * Side - 1
           /\ outline_width = 0 => draws = <<FillDraw>>

\* a label drawn with a halo
LabelDrawnWithOutline ==
    /\ pc = "label_done" /\ outline_width >= 1
    /\ Len(draws) >= 9
    /\ canvas[position] = hex_to_rgb(fill_color)

\* C6: when the measurement or one of the draws of a label raises, the canvas
\* is as it was before the stamp began.
SkippedLabelLeavesCanvas ==
    pc = "label_skipped" =>
        canvas = NewImage(width, height, hex_to_rgb(background))

----------------------------------------------------------------------------
(* Properties of get_font *)

Usable(i) ==
    /\ font_options(bold)[i] # None
    /\ font_options(bold)[i] \in existing
    /\ font_options(bold)[i] \in loadable

\* C8: get_font never raises and returns the font of the first candidate that
\* exists and loads, or the default font when there is none.
FirstUsableFontOrDefault ==
    /\ raised = "none"
    /\ pc = "font_returned" =>
           IF \E i \in 1..Len(font_options(bold)) : Usable(i)
           THEN \E i \in 1..Len(font_options(bold)) :
                    /\ Usable(i)
                    /\ \A j \in 1..(i - 1) : ~Usable(j)
                    /\ font = font_options(bold)[i]
           ELSE font = DefaultFont

\* get_font returned a later candidate after an earlier one failed to load
FontAfterFailedLoad ==
    /\ pc = "font_returned"
    /\ font # DefaultFont
    /\ \E j \in 1..3 :
           /\ font_options(bold)[j] \in existing \ loadable
           /\ \E i \in (j + 1)..3 : font = font_options(bold)[i]

----------------------------------------------------------------------------
(* Properties of generate_all_assets *)

LabelsBefore(i) == SelectSeq([k \in 1..(i - 1) |-> k],
                             LAMBDA k : AssetSteps[k].op = "label")

FileOrder == <<"assets/icon.png", "assets/adaptive-icon.png",
               "assets/splash.png", "assets/favicon.png">>

IsPrefix(s, t) == Len(s) <= Len(t) /\ SubSeq(t, 1, Len(s)) = s

\* C7: a label that fails never aborts the run: whatever labels failed, every
\* label before the current step was attempted, and the except clause of
\* generate_all_assets is never entered from a label.
LabelFailureNeverAborts ==
    /\ attempted = LabelsBefore(ip)
    /\ pc = "except" => Step.op # "label"
    /\ (pc = "exited" /\ Step.op = "done") =>
           /\ images = {"icon", "adaptive", "splash", "favicon"}
           /\ exit_code = 0

\* the run ends with all four files although no label was drawn
AllLabelsFailedAllFilesSaved ==
    /\ pc = "exited"
    /\ stamped = {}
    /\ Len(attempted) = 9
    /\ files = FileOrder

\* C9: the exit code is 0 exactly when all four images were generated and
\* saved, and 1 otherwise; no exception leaves generate_all_assets.
ExitCodeReflectsFiles ==
    /\ pc \in {"returned", "exited"} => raised = "none"
    /\ pc = "exited" =>
           /\ exit_code \in {0, 1}
           /\ exit_code = 0 <=>
                  {files[i] : i \in 1..Len(files)}
                      = {FileOrder[i] : i \in 1..Len(FileOrder)}

\* a run that ends with exit code 1 after some file was saved
FailedAfterSomeFile ==
    pc = "exited" /\ exit_code = 1 /\ Len(files) >= 1 /\ success = FALSE

\* C10: the files are written in the order icon, adaptive icon, splash,
\* favicon, each at most once; a written file stays; after a failed step no
\* step is retried and none is attempted.
FilesInFixedOrder ==
    [][ /\ IsPrefix(files, files')
        /\ IsPrefix(files', FileOrder)
        /\ pc \in {"except", "returned", "exited"} =>
               (files' = files /\ ip' = ip /\ images' = images) ]_vars

\* the splash screen failed to save: the two icons are on disk, the favicon
\* is not
StoppedAtSplash ==
    /\ pc = "exited" /\ success = FALSE
    /\ Step = SaveStep("splash", "assets/splash.png")
    /\ files = SubSeq(FileOrder, 1, 2)

====
